---- MODULE Spec2Model ----
(***************************************************************************)
(* Model of the DockerHub MCP server request pipeline.                     *)
(*                                                                         *)
(*   Spec     the JSON-RPC front end (types/mcp.ts, class Server) with the *)
(*            handlers registered by DockerHubMCPServer.setupHandlers.     *)
(*   ApiSpec  DockerHubApiService.makeRequest with the rate limiter and    *)
(*            the cache it uses.                                           *)
(*                                                                         *)
(* JavaScript runs every callback to its next await that needs the event   *)
(* loop; an action of this module is one such run.                         *)
(***************************************************************************)
EXTENDS Integers, Sequences, FiniteSets, TLC

(***************************************************************************)
(* Bounds of the model.                                                    *)
(***************************************************************************)
\* stdin lines taken up by the front end in one behaviour
MaxLines == 3
\* lines in one stdin data event
MaxChunkLines == 2

\* the id of a message that carries none (JSON ids of the model are positive)
NoId == 0 - 1
Ids == {1, 2}

(***************************************************************************)
(* RPC front end: state.                                                   *)
(***************************************************************************)
VARIABLES
    isInitialized,  \* Server.isInitialized
    output,         \* the lines written to process.stdout, in order
    chunks,         \* one record per stdin 'data' callback
    reqs,           \* log: one record per handleRequest call that had an id
    taken,          \* number of stdin lines the data callbacks have taken up
    prev,           \* history: what the data callbacks did last ("first": a
                    \* callback has just begun)
    exited          \* process.exit(0) was called

(***************************************************************************)
(* Upstream client: state.                                                 *)
(***************************************************************************)
VARIABLES
    calls,          \* the makeRequest activations, one per concurrent caller
    started,        \* number of makeRequest calls made so far
    cache,          \* CacheService: cache key -> entry
    limiter         \* RateLimiterMemory of the registry: subject key -> entry

(***************************************************************************)
(* Clock of the cache and what its client saw.                             *)
(***************************************************************************)
VARIABLES
    now,            \* Date.now() in seconds since the start
    got,            \* the last CacheService.get of the client, NoGot after a
                    \* set or a tick
    lastSet         \* history: cache key -> the last setWithOperationTTL call

(***************************************************************************)
(* Tools: the running callTool and what earlier calls returned.            *)
(***************************************************************************)
VARIABLES
    tool,           \* the callTool in progress (DockerHubTools.callTool)
    served          \* history: tool name -> the payload its last call with
                    \* valid arguments got from the upstream, while cached

(***************************************************************************)
(* The bytes of stdin, and the token of the upstream client.               *)
(***************************************************************************)
VARIABLES
    stdin,          \* the characters the client has written and no 'data'
                    \* event has delivered yet
    written,        \* history: the ids of the request lines written, in order
    auth            \* DockerHubApiService.bearerToken and tokenExpiry, the
                    \* request interceptors in progress, the login calls made

(***************************************************************************)
(* The pure functions: the call made last and what it returned.            *)
(***************************************************************************)
VARIABLES
    backoff,        \* RateLimiterService.getBackoffDelay: the last call and
                    \* the call before it
    keyed           \* CacheService.generateKey: the last call

rpcVars == <<isInitialized, output, chunks, reqs, taken, prev, exited>>
apiVars == <<calls, started, cache, limiter>>
clockVars == <<now, got, lastSet>>
toolVars == <<tool, served>>
frameVars == <<stdin, written>>
authVars == <<auth>>
libVars == <<backoff, keyed>>

vars == <<isInitialized, output, chunks, reqs, taken, prev, exited,
          calls, started, cache, limiter, now, got, lastSet, tool, served,
          stdin, written, auth, backoff, keyed>>

\* what the steps of the front end leave alone, and the steps of makeRequest
nonRpcVars == <<apiVars, clockVars, toolVars, frameVars, authVars, libVars>>
nonApiVars == <<rpcVars, clockVars, toolVars, frameVars, authVars, libVars>>

ProtocolVersion == "2025-06-18"
InternalErrorCode == 0 - 32603
MethodNotFoundCode == 0 - 32601

\* the handlers map after DockerHubMCPServer.setupHandlers
handlers == {"tools/list", "tools/call", "resources/list", "prompts/list"}

\* the params member of a request: absent, or an object; for tools/call the
\* object names a tool and carries its arguments
NoParams == [present |-> FALSE, name |-> "", args |-> ""]
SomeParams == [present |-> TRUE, name |-> "", args |-> ""]
ToolParams ==
    {[present |-> TRUE, name |-> "docker_search_images", args |-> "valid"],
     [present |-> TRUE, name |-> "docker_search_images", args |-> "undefined"],
     [present |-> TRUE, name |-> "no_such_tool", args |-> "valid"]}

\* the request lines a client sends; kind "garbage" is a line JSON.parse
\* rejects, kind "blank" a line that is empty after trim()
JsonLines ==
    [kind : {"json"}, id : Ids, method : {"initialize", "ping", "tools/list", "no/such"},
     params : {SomeParams}]
    \cup [kind : {"json"}, id : Ids, method : {"tools/call"},
          params : {NoParams} \cup ToolParams]
    \cup [kind : {"json"}, id : {NoId},
          method : {"initialize", "notifications/cancelled"}, params : {SomeParams}]

Lines == JsonLines \cup
    {[kind |-> k, id |-> NoId, method |-> "", params |-> NoParams] : k \in {"garbage", "blank"}}

\* what a handler returns (the result member of the response) or the error
\* it rejects with; for tools/call the value is the parsed text content
HandlerValue(kind, success, error, name, data) ==
    [kind |-> kind, success |-> success, error |-> error, tool |-> name, data |-> data]

NoOutcome == [settled |-> "none", value |-> HandlerValue("", FALSE, "", "", ""), thrown |-> ""]

sendResponse(id, req, result) ==
    [type |-> "result", id |-> id, req |-> req, body |-> result]

sendError(id, req, message, code) ==
    [type |-> "error", id |-> id, req |-> req, body |-> [code |-> code, message |-> message]]

initializedNotification ==
    [type |-> "notification", id |-> NoId, req |-> 0, body |-> "initialized"]

InitializeResult ==
    [protocolVersion |-> ProtocolVersion, capabilities |-> "capabilities",
     serverInfo |-> "serverInfo"]

\* handleInitialize whose catch block runs after the response was written
handleInitializeWritesThenError(id, req) ==
    <<sendResponse(id, req, InitializeResult), initializedNotification,
      sendError(id, req, "write failed", InternalErrorCode)>>

\* handleInitialize announcing before it answers
handleInitializeWritesSwapped(id, req) ==
    <<initializedNotification, sendResponse(id, req, InitializeResult)>>

\* the writes of handleInitialize, in order
handleInitializeWrites(id, req) ==
    <<sendResponse(id, req, InitializeResult), initializedNotification>>

\* a handleInitialize that flips the flag
handleInitializeFlips(initialized) == ~initialized

\* handleInitialize: this.isInitialized = true, the only assignment to it
handleInitializeSets(initialized) == TRUE

\* the message of new Error(`Method not found: ${method}`) for the methods
\* of the model that have no handler
methodNotFoundMessage(method) ==
    IF method = "no/such" THEN "Method not found: no/such" ELSE "Method not found: "

\* handleRequest answering a missing handler with sendError's default code
methodNotFoundDefaultCode(id, req, method) ==
    sendError(id, req, methodNotFoundMessage(method), InternalErrorCode)

\* handleRequest when handlers.get(method) is undefined
methodNotFound(id, req, method) ==
    sendError(id, req, methodNotFoundMessage(method), MethodNotFoundCode)

\* handleRequest looking at initialize before it looks at the id
isNotificationExceptInitialize(id, method) == id = NoId /\ method # "initialize"

\* handleRequest: "Handle notifications (no id)", its first test
isNotification(id, method) == id = NoId

\* handleRequest looking at ping after the initialization check
answersPingInitialized(initialized, method) == initialized /\ method = "ping"

\* handleRequest: "Handle ping method", before the initialization check
answersPing(initialized, method) == method = "ping"

\* handleRequest without the initialization check
rejectNever(initialized, method) == FALSE

\* handleRequest: "Only allow other methods after initialization"
rejectUninitialized(initialized, method) ==
    ~initialized /\ method # "initialize"

\* handleRequest's catch block leaving the rejection unanswered
settleWriteDropsRejection(id, req, o) ==
    IF o.settled = "resolved" THEN <<sendResponse(id, req, o.value)>> ELSE <<>>

\* handleRequest after await handler(request): sendResponse with the result,
\* or the catch block's sendError with the default code
settleWrite(id, req, o) ==
    IF o.settled = "resolved"
    THEN <<sendResponse(id, req, o.value)>>
    ELSE <<sendError(id, req, IF o.value.error = "" THEN "Internal error" ELSE o.value.error,
                     InternalErrorCode)>>

Runnable(c) == chunks[c].st = "run"
NoRunnable == \A c \in 1..Len(chunks) : ~Runnable(c)

\* the for loop of the data callback moves to the next line
NextLine(ch) ==
    IF ch.left = 1 THEN [ch EXCEPT !.left = 0, !.st = "done"]
    ELSE [ch EXCEPT !.left = @ - 1, !.st = "run"]

\* a parse error that leaves the for loop (try around the loop)
parseFailedEndsLoop(ch) == [ch EXCEPT !.left = 0, !.st = "done"]

\* JSON.parse threw: the empty catch block inside the loop
parseFailed(ch) == NextLine(ch)

InitRpc ==
    /\ isInitialized = FALSE
    /\ output = <<>>
    /\ chunks = <<>>
    /\ reqs = <<>>
    /\ taken = 0
    /\ prev = "first"
    /\ exited = FALSE

\* process.stdin.on('data'): a chunk of n lines arrives
DataEvent(n) ==
    /\ ~exited
    /\ NoRunnable
    /\ taken + n <= MaxLines
    /\ taken' = taken + n
    /\ prev' = "first"
    /\ chunks' = Append(chunks, [left |-> n, st |-> "run", req |-> 0])
    /\ UNCHANGED <<isInitialized, output, reqs, exited>>
    /\ UNCHANGED nonRpcVars

\* one iteration of the for loop: JSON.parse and handleRequest up to its await
HandleLine(c, line) ==
    /\ ~exited
    /\ Runnable(c)
    /\ UNCHANGED <<taken, nonRpcVars>>
    /\ LET r == Len(reqs) + 1
           entry == [id |-> line.id, method |-> line.method, params |-> line.params,
                     initAtDispatch |-> isInitialized, invoked |-> 0,
                     after |-> prev,
                     state |-> "done", outcome |-> NoOutcome]
       IN
       IF line.kind = "garbage"
       THEN \* parse error swallowed
            /\ chunks' = [chunks EXCEPT ![c] = parseFailed(@)]
            /\ prev' = "garbage"
            /\ UNCHANGED <<isInitialized, output, reqs, exited>>
       ELSE IF line.kind = "blank" \/ isNotification(line.id, line.method)
       THEN \* blank line skipped, notification ignored
            /\ chunks' = [chunks EXCEPT ![c] = NextLine(@)]
            /\ prev' = IF line.kind = "blank" THEN "blank" ELSE "notification"
            /\ UNCHANGED <<isInitialized, output, reqs, exited>>
       ELSE IF line.method = "initialize"
       THEN /\ output' = output \o handleInitializeWrites(line.id, r)
            /\ isInitialized' = handleInitializeSets(isInitialized)
            /\ reqs' = Append(reqs, entry)
            /\ chunks' = [chunks EXCEPT ![c] = NextLine(@)]
            /\ prev' = "request"
            /\ UNCHANGED exited
       ELSE IF answersPing(isInitialized, line.method)
       THEN /\ output' = Append(output, sendResponse(line.id, r, [pong |-> TRUE]))
            /\ reqs' = Append(reqs, entry)
            /\ chunks' = [chunks EXCEPT ![c] = NextLine(@)]
            /\ prev' = "request"
            /\ UNCHANGED <<isInitialized, exited>>
       ELSE IF rejectUninitialized(isInitialized, line.method)
       THEN /\ output' = Append(output,
                   sendError(line.id, r, "Server not initialized", InternalErrorCode))
            /\ reqs' = Append(reqs, entry)
            /\ chunks' = [chunks EXCEPT ![c] = NextLine(@)]
            /\ prev' = "request"
            /\ UNCHANGED <<isInitialized, exited>>
       ELSE IF line.method \notin handlers
       THEN /\ output' = Append(output, methodNotFound(line.id, r, line.method))
            /\ reqs' = Append(reqs, entry)
            /\ chunks' = [chunks EXCEPT ![c] = NextLine(@)]
            /\ prev' = "request"
            /\ UNCHANGED <<isInitialized, exited>>
       ELSE \* await handler(request)
            /\ reqs' = Append(reqs, [entry EXCEPT !.invoked = @ + 1, !.state = "await"])
            /\ chunks' = [chunks EXCEPT ![c].st = "await", ![c].req = r]
            /\ prev' = "request"
            /\ UNCHANGED <<isInitialized, output, exited>>

\* process.stdin.on('end') and the signal handlers: process.exit(0)
StdinEnd ==
    /\ ~exited
    /\ NoRunnable
    /\ exited' = TRUE
    /\ UNCHANGED <<isInitialized, output, chunks, reqs, taken, prev>>
    /\ UNCHANGED nonRpcVars

(***************************************************************************)
(* Upstream client: DockerHubApiService.makeRequest, RateLimiterService,   *)
(* CacheService.                                                           *)
(***************************************************************************)
\* makeRequest calls made in one behaviour
MaxCalls == 4
\* config.rateLimit.requestsPerMinute, the points of the RateLimiterMemory
RequestsPerMinute == 2
\* callers of makeRequest; ApiSpec runs the calls of the first one, one
\* after the other
Callers == {1, 2}
Solo == {1}

RegistryName == "dockerhub"
MaxAttempts == 3
DefaultRetryAfterMs == 60000
BackoffCapMs == 30000
BlockDurationMs == 60000
\* Math.random() * 1000, smallest and largest whole value
Jitters == {0, 999}

Min(a, b) == IF a < b THEN a ELSE b
Max(a, b) == IF a > b THEN a ELSE b

\* paths as token sequences
SearchUrl == <<"/", "v2", "/", "search", "/", "repositories", "/">>
RepoUrl == <<"/", "v2", "/", "repositories", "/", "nginx", "/">>
TagsUrl == <<"/", "v2", "/", "repositories", "/", "nginx", "/", "tags", "/">>

\* String.prototype.includes
Includes(s, sub) ==
    \E i \in 1..(Len(s) - Len(sub) + 1) : SubSeq(s, i, i + Len(sub) - 1) = sub

getOperationType(url) ==
    IF Includes(url, <<"/", "search">>) THEN "search"
    ELSE IF Includes(url, <<"/", "tags">>) THEN "tags"
    ELSE IF Includes(url, <<"/", "manifests">>) THEN "manifest"
    ELSE IF Includes(url, <<"/", "vulnerabilities">>) THEN "vulnerabilities"
    ELSE IF Includes(url, <<"/", "stats">>) THEN "stats"
    ELSE "image_details"

\* config.cache.ttl
ConfigTtl == 300

\* the ttl (seconds) setWithOperationTTL passes to set
OperationTTL(operation) ==
    CASE operation = "search" -> 300
      [] operation = "image_details" -> 600
      [] operation = "tags" -> 900
      [] operation = "manifest" -> 1800
      [] operation = "vulnerabilities" -> 3600
      [] operation = "stats" -> 7200
      [] OTHER -> ConfigTtl

\* a falsy cacheKey: makeRequest was called without one
NoKey == ""
CacheKeys ==
    {"dockerhub:search:q", "dockerhub:image_details:r", "dockerhub:search:q:limit1000",
     "dockerhub:search:nginx:1", "dockerhub:tags:r", "dockerhub:manifest:r"}

\* the (url, cacheKey) pairs the operations pass to makeRequest:
\* searchImages, getImageDetails, and getManifest's uncached repository fetch
MakeRequestInputs ==
    {[url |-> SearchUrl, cacheKey |-> "dockerhub:search:q"],
     [url |-> RepoUrl, cacheKey |-> "dockerhub:image_details:r"],
     [url |-> RepoUrl, cacheKey |-> NoKey]}

rateLimitKey(method, url) == <<RegistryName, method, url>>
TagUrl == TagsUrl \o <<"latest", "/">>
Urls == {SearchUrl, RepoUrl, TagsUrl, TagUrl}
RlKeys == {rateLimitKey("GET", u) : u \in Urls}

\* response bodies; "" is an empty (falsy) body
Bodies == {"d1", "d2", ""}

(***************************************************************************)
(* Retry-After parsing.  A header is a sequence of characters; NoHeader is *)
(* the undefined of a response without it.                                 *)
(***************************************************************************)
NoHeader == <<"undefined">>
NaN == 0 - 1
RetryAfterHeaders == {NoHeader, <<>>, <<"2">>, <<"1", "0">>, <<"W", "e", "d">>}

IsDigit(ch) == ch \in {"0", "1", "2", "3", "4", "5", "6", "7", "8", "9"}
DigitValue(ch) ==
    CASE ch = "0" -> 0 [] ch = "1" -> 1 [] ch = "2" -> 2 [] ch = "3" -> 3 [] ch = "4" -> 4
      [] ch = "5" -> 5 [] ch = "6" -> 6 [] ch = "7" -> 7 [] ch = "8" -> 8 [] ch = "9" -> 9

RECURSIVE parseDigits(_, _)
parseDigits(s, acc) ==
    IF s = <<>> \/ ~IsDigit(Head(s)) THEN acc
    ELSE parseDigits(Tail(s), acc * 10 + DigitValue(Head(s)))

\* parseInt on a string without sign or leading blanks
parseInt(s) == IF s = <<>> \/ ~IsDigit(Head(s)) THEN NaN ELSE parseDigits(s, 0)

\* const waitTime = retryAfter ? parseInt(retryAfter) * 1000 : 60000
retryAfterWaitTime(retryAfter) ==
    IF retryAfter # NoHeader /\ retryAfter # <<>>
    THEN IF parseInt(retryAfter) = NaN THEN NaN ELSE parseInt(retryAfter) * 1000
    ELSE DefaultRetryAfterMs

\* RateLimiterService.getBackoffDelay with the jitter drawn
getBackoffDelay(attempt, jitter) ==
    Min((2 ^ attempt) * 1000, BackoffCapMs) + jitter

(***************************************************************************)
(* HTTP outcomes of httpClient.request.                                    *)
(***************************************************************************)
\* lastError: the status and code of the error, seq the attempt that raised it
NoError == [status |-> 0, code |-> "", seq |-> 0]

\* rejections: a status with a response, or an error code without one
\* (ECONNABORTED is axios' timeout error)
HttpErrors ==
    [status : {401, 403, 404, 500, 503}, code : {""}, retryAfter : {NoHeader}]
    \cup [status : {429}, code : {""}, retryAfter : RetryAfterHeaders]
    \cup [status : {0}, code : {"ECONNRESET", "ECONNABORTED"}, retryAfter : {NoHeader}]

HttpOutcomes ==
    [ok : {TRUE}, data : Bodies, error : {[status |-> 0, code |-> "", retryAfter |-> NoHeader]}]
    \cup [ok : {FALSE}, data : {""}, error : HttpErrors]

\* the error node-cache throws from set when the store is full: no response,
\* code ECACHEFULL
CacheFullError(seq) == [status |-> 0, code |-> "ECACHEFULL", seq |-> seq]

\* error.response?.status === 429
isRateLimited(error) == error.status = 429

\* a retry test that takes every error status for a server error
isRetryableAnyStatus(error) == error.status >= 400 \/ error.code = "ECONNRESET"

\* error.response?.status >= 500 || error.code === 'ECONNRESET'
isRetryable(error) == error.status >= 500 \/ error.code = "ECONNRESET"

(***************************************************************************)
(* Rate limiter (RateLimiterMemory with points = requestsPerMinute).       *)
(* consumed = 0 is a key without a record.                                 *)
(***************************************************************************)
\* a key without a record; admitted and exceeded are history: the calls of
\* the window to which checkRateLimit returned true, and whether the key's
\* previous window ended with its quota exceeded
NoRecord == [consumed |-> 0, admitted |-> 0, exceeded |-> FALSE]

\* a consume that takes two points
consumeTwo(entry) == [entry EXCEPT !.consumed = @ + 2]

\* rateLimiter.consume(key): the record after the call
consume(entry) == [entry EXCEPT !.consumed = @ + 1]

remainingPoints(entry) == Max(RequestsPerMinute - entry.consumed, 0)

\* failures of the limiter's store other than quota exhaustion: which call of
\* checkRateLimit throws an error without remainingPoints
RlFaults == {"none", "consume", "get"}

\* a checkRateLimit that rethrows the rejection of consume
checkRateLimitRethrows(entry, fault) ==
    IF fault = "consume" THEN "throw"
    ELSE IF entry.consumed <= RequestsPerMinute
    THEN IF fault = "get" THEN "throw" ELSE "true"
    ELSE "throw"

\* a checkRateLimit that admits one request more than the points
checkRateLimitOneMore(entry, fault) ==
    IF fault = "consume" THEN "throw"
    ELSE IF entry.consumed <= RequestsPerMinute + 1
    THEN IF fault = "get" THEN "throw" ELSE "true"
    ELSE "false"

\* a checkRateLimit whose catch block admits on every error but exhaustion
checkRateLimitFailOpen(entry, fault) ==
    IF fault = "consume" THEN "true"
    ELSE IF entry.consumed <= RequestsPerMinute THEN "true"
    ELSE "false"

\* RateLimiterService.checkRateLimit on the record consume left: consume
\* resolves up to the points and rejects with remainingPoints 0 beyond them
checkRateLimit(entry, fault) ==
    IF fault = "consume" THEN "throw"
    ELSE IF entry.consumed <= RequestsPerMinute
    THEN IF fault = "get" THEN "throw" ELSE "true"
    ELSE IF remainingPoints(entry) = 0 THEN "false"
    ELSE "throw"

\* RateLimiterService.getRateLimitInfo
getRateLimitInfo(entry) ==
    IF entry.consumed > 0
    THEN [remainingPoints |-> remainingPoints(entry), msBeforeNext |-> BlockDurationMs]
    ELSE [remainingPoints |-> RequestsPerMinute, msBeforeNext |-> 0]

\* RateLimiterService.waitForRateLimit: does it sleep
waitForRateLimitSleeps(entry) ==
    LET info == getRateLimitInfo(entry) IN
    info.remainingPoints = 0 /\ info.msBeforeNext > 0

(***************************************************************************)
(* Cache.                                                                  *)
(***************************************************************************)
\* config.cache.maxKeys
MaxKeys == 2

\* t is the time (seconds) at which the entry expires
NoEntry == [present |-> FALSE, value |-> "", ttl |-> 0, t |-> 0]

\* node-cache's check of an entry on get: it is dropped once t < Date.now()
cacheLive(key) == cache[key].present /\ ~(cache[key].t < now)

\* a get that returns entries past their time
cacheGetStale(key) == IF cache[key].present THEN cache[key].value ELSE ""

\* CacheService.get: undefined is reported as a miss
cacheGet(key) == IF cacheLive(key) THEN cache[key].value ELSE ""

\* a store that takes one key more than maxKeys
cacheFullOffByOne == Cardinality({k \in DOMAIN cache : cache[k].present}) > MaxKeys

\* node-cache's set throws ECACHEFULL when the store holds maxKeys keys
cacheFull == Cardinality({k \in DOMAIN cache : cache[k].present}) >= MaxKeys

\* a set that leaves an entry that is present as it is
setWithOperationTTLKeepsFirst(c, key, value, operation) ==
    IF c[key].present THEN c
    ELSE [c EXCEPT ![key] = [present |-> TRUE, value |-> value,
                             ttl |-> OperationTTL(operation),
                             t |-> now + OperationTTL(operation)]]

\* CacheService.setWithOperationTTL
setWithOperationTTL(c, key, value, operation) ==
    [c EXCEPT ![key] = [present |-> TRUE, value |-> value, ttl |-> OperationTTL(operation),
                        t |-> now + OperationTTL(operation)]]

(***************************************************************************)
(* makeRequest.                                                            *)
(***************************************************************************)
NoWait == [kind |-> "none", ms |-> 0, arg |-> 0]
Pending == [kind |-> "pending", value |-> "", error |-> NoError]

IdleCall ==
    [pc |-> "idle", no |-> 0, url |-> <<>>, cacheKey |-> NoKey, fault |-> "none",
     attempt |-> 0, allowed |-> "true",
     denied |-> FALSE, lookups |-> 0, hit |-> FALSE, sent |-> 0, n429 |-> 0, n500 |-> 0, wait |-> NoWait,
     lastError |-> NoError, result |-> Pending, windowEnded |-> FALSE]

InitApi ==
    /\ calls = [c \in Callers |-> IdleCall]
    /\ started = 0
    /\ cache = [k \in CacheKeys |-> NoEntry]
    /\ limiter = [k \in RlKeys |-> NoRecord]

NoGot == [key |-> NoKey, found |-> FALSE, value |-> ""]
NeverSet ==
    [set |-> FALSE, value |-> "", operation |-> "", at |-> 0, readBack |-> FALSE,
     threw |-> FALSE]

InitClock ==
    /\ now = 0
    /\ got = NoGot
    /\ lastSet = [k \in CacheKeys |-> NeverSet]


\* a retry loop that runs once more
loopContinuesOffByOne(attempt) == attempt <= MaxAttempts + 1

\* the loop condition of makeRequest's retry loop
loopContinues(attempt) == attempt <= MaxAttempts

\* a makeRequest that never looks into the cache
afterAdmissionNoLookup(call) ==
    [call EXCEPT !.pc = "http", !.attempt = 1, !.sent = @ + 1,
                 !.lookups = IF call.cacheKey # NoKey THEN 1 ELSE 0]

\* makeRequest from the cache lookup to the first httpClient.request
afterAdmission(call) ==
    IF call.cacheKey # NoKey /\ cacheGet(call.cacheKey) # ""
    THEN [call EXCEPT !.pc = "done", !.lookups = 1, !.hit = TRUE,
                      !.result = [kind |-> "value", value |-> cacheGet(call.cacheKey),
                                  error |-> NoError]]
    ELSE [call EXCEPT !.pc = "http", !.attempt = 1, !.sent = @ + 1,
                      !.lookups = IF call.cacheKey # NoKey THEN 1 ELSE 0]

\* makeRequest up to its first await of the event loop: admission, and when
\* admitted the cache lookup and the first HTTP attempt
makeRequestStart(c, input, fault) ==
    /\ calls[c].pc \in {"idle", "done"}
    /\ started' = started + 1
    /\ LET key == rateLimitKey("GET", input.url)
           entry == IF fault = "consume" THEN limiter[key] ELSE consume(limiter[key])
           allowed == checkRateLimit(entry, fault)
           call == [IdleCall EXCEPT !.no = started + 1, !.url = input.url, !.cacheKey = input.cacheKey,
                                    !.fault = fault, !.allowed = allowed,
                                    !.denied = (fault # "consume"
                                                /\ entry.consumed > RequestsPerMinute)]
       IN
       /\ limiter' = [limiter EXCEPT ![key] =
             [entry EXCEPT !.admitted = IF allowed = "true" THEN @ + 1 ELSE @]]
       /\ calls' = [calls EXCEPT ![c] =
             IF allowed = "throw"
             THEN [call EXCEPT !.pc = "done",
                               !.result = [kind |-> "error", value |-> "rate limiter",
                                           error |-> NoError]]
             ELSE IF allowed = "false" /\ waitForRateLimitSleeps(entry)
             THEN [call EXCEPT !.pc = "rl_wait",
                               !.wait = [kind |-> "ratelimit",
                                         ms |-> getRateLimitInfo(entry).msBeforeNext,
                                         arg |-> 0]]
             ELSE afterAdmission(call)]
    /\ UNCHANGED cache

\* a caller enters makeRequest
StartCall(c, input, fault) ==
    /\ started < MaxCalls
    /\ makeRequestStart(c, input, fault)
    /\ UNCHANGED nonApiVars

\* the timer of waitForRateLimit fires: it was set to the end of the window
RateLimitTimer(c) ==
    /\ calls[c].pc = "rl_wait"
    /\ calls[c].windowEnded
    /\ calls' = [calls EXCEPT ![c] = afterAdmission([@ EXCEPT !.windowEnded = FALSE])]
    /\ UNCHANGED <<started, cache, limiter>>
    /\ UNCHANGED nonApiVars

\* a test that takes an empty body for one to store
cachesResponseAnyBody(cacheKey, data) == cacheKey # NoKey

\* if (cacheKey && response.data): is the response stored
cachesResponse(cacheKey, data) == cacheKey # NoKey /\ data # ""

\* httpClient.request settles: the try body or the catch block of the loop
HttpRespond(c, o) ==
    /\ calls[c].pc = "http"
    /\ LET call == calls[c]
           err == [status |-> o.error.status, code |-> o.error.code, seq |-> call.sent]
       IN
       IF o.ok /\ cachesResponse(call.cacheKey, o.data) /\ cacheFull
       THEN \* setWithOperationTTL throws inside the try: the catch block
            \* takes the store's error for the error of the attempt
            /\ cache' = cache
            /\ calls' = [calls EXCEPT ![c] =
                  [call EXCEPT !.pc = "done", !.lastError = CacheFullError(call.sent),
                               !.result = [kind |-> "error", value |-> "",
                                           error |-> CacheFullError(call.sent)]]]
       ELSE IF o.ok
       THEN /\ cache' = IF cachesResponse(call.cacheKey, o.data)
                        THEN setWithOperationTTL(cache, call.cacheKey, o.data,
                                                 getOperationType(call.url))
                        ELSE cache
            /\ calls' = [calls EXCEPT ![c] =
                  [call EXCEPT !.pc = "done",
                               !.result = [kind |-> "value", value |-> o.data,
                                           error |-> NoError]]]
       ELSE /\ cache' = cache
            /\ IF isRateLimited(err)
               THEN calls' = [calls EXCEPT ![c] =
                       [call EXCEPT !.pc = "retry_wait", !.lastError = err, !.n429 = @ + 1,
                                    !.wait = [kind |-> "429",
                                              ms |-> retryAfterWaitTime(o.error.retryAfter),
                                              arg |-> 0]]]
               ELSE IF isRetryable(err)
               THEN \E j \in Jitters :
                    calls' = [calls EXCEPT ![c] =
                       [call EXCEPT !.pc = "retry_wait", !.lastError = err,
                                    !.n500 = IF err.status = 500 THEN @ + 1 ELSE @,
                                    !.wait = [kind |-> "backoff",
                                              ms |-> getBackoffDelay(call.attempt, j),
                                              arg |-> call.attempt]]]
               ELSE calls' = [calls EXCEPT ![c] =
                       [call EXCEPT !.pc = "done", !.lastError = err,
                                    !.result = [kind |-> "error", value |-> "",
                                                error |-> err]]]
    /\ UNCHANGED <<started, limiter>>
    /\ UNCHANGED nonApiVars

\* the timer of a retry wait fires: continue, the loop's increment and test,
\* then the next httpClient.request or throw lastError
RetryTimer(c) ==
    /\ calls[c].pc = "retry_wait"
    /\ LET call == calls[c] IN
       calls' = [calls EXCEPT ![c] =
          IF loopContinues(call.attempt + 1)
          THEN [call EXCEPT !.pc = "http", !.attempt = @ + 1, !.sent = @ + 1]
          ELSE [call EXCEPT !.pc = "done", !.attempt = @ + 1,
                            !.result = [kind |-> "error", value |-> "",
                                        error |-> call.lastError]]]
    /\ UNCHANGED <<started, cache, limiter>>
    /\ UNCHANGED nonApiVars

\* the window of a subject key ends: the limiter drops its record
WindowReset(key) ==
    /\ limiter[key].consumed > 0
    /\ limiter' = [limiter EXCEPT ![key] =
          [consumed |-> 0, admitted |-> 0,
           exceeded |-> limiter[key].consumed > RequestsPerMinute]]
    /\ calls' = [c \in Callers |->
          IF calls[c].pc = "rl_wait" /\ rateLimitKey("GET", calls[c].url) = key
          THEN [calls[c] EXCEPT !.windowEnded = TRUE]
          ELSE calls[c]]
    /\ UNCHANGED <<started, cache>>
    /\ UNCHANGED nonApiVars

\* the ttl of a cache entry elapses
CacheExpire(key) ==
    /\ cache[key].present
    /\ cache' = [cache EXCEPT ![key] = NoEntry]
    /\ UNCHANGED <<calls, started, limiter>>
    /\ UNCHANGED nonApiVars

(***************************************************************************)
(* Tools: DockerHubTools.callTool and the DockerHubApiService methods it    *)
(* calls.  A tool call runs makeRequest calls as caller 1, one after the   *)
(* other.  ToolSpec is the tool calls of one minute: no window of the rate *)
(* limiter ends and no TTL (300 s and more) elapses, so a makeRequest that *)
(* is denied admission waits beyond its behaviours.                        *)
(***************************************************************************)
\* callTool invocations in one behaviour
MaxToolCalls == 3

\* the fields of DockerHubImageSchema and DockerHubTagSchema
ImageSchemaFields ==
    {"id", "name", "namespace", "repository_type", "status", "description", "is_private",
     "is_automated", "can_edit", "star_count", "pull_count", "last_updated",
     "date_registered", "collaborator_count", "hub_user", "has_starred",
     "full_description", "affiliation", "permissions"}
TagSchemaFields ==
    {"id", "name", "last_updated", "digest", "size", "architecture", "os", "variant",
     "features", "os_version", "os_features", "note"}
ManifestSchemaFields ==
    {"name", "tag", "architecture", "schemaVersion", "fsLayers", "history", "signatures",
     "dockerHubData"}

\* the fields of the objects the api methods build after a 401
DefaultImageFields == ImageSchemaFields \ {"affiliation"}
MockTagFields == {"id", "name", "last_updated", "digest", "size", "architecture", "os"}
BasicManifestFields == ManifestSchemaFields \ {"dockerHubData"}

\* the tool calls of the model: name and arguments.  "invalid" arguments are
\* an object that violates the input schema (limit: 1000), "undefined" is a
\* call without arguments
ToolInputs ==
    [name : {"docker_search_images"}, args : {"valid", "invalid", "undefined"}]
    \cup [name : {"docker_get_image_details", "docker_list_tags", "docker_get_manifest",
                  "no_such_tool"},
          args : {"valid"}]

\* what the api methods pass to makeRequest
SearchInput(args) ==
    [url |-> SearchUrl,
     cacheKey |-> IF args = "valid" THEN "dockerhub:search:q"
                  ELSE "dockerhub:search:q:limit1000"]
DetailsInput == [url |-> RepoUrl, cacheKey |-> "dockerhub:image_details:r"]
FallbackSearchInput == [url |-> SearchUrl, cacheKey |-> "dockerhub:search:nginx:1"]
TagsInput == [url |-> TagsUrl, cacheKey |-> "dockerhub:tags:r"]
ManifestTagInput == [url |-> TagUrl, cacheKey |-> "dockerhub:manifest:r"]
ManifestRepoInput == [url |-> RepoUrl, cacheKey |-> NoKey]

NoCause == [msg |-> "", status |-> 0, code |-> ""]
NoResult == [kind |-> "none", origin |-> "", payload |-> "", fields |-> {}, error |-> NoCause]

IdleTool ==
    [pc |-> "idle", no |-> 0, name |-> "", args |-> "", step |-> 0, requests |-> 0,
     http |-> 0, data |-> "", repeat |-> FALSE, expect |-> "", result |-> NoResult]

Unserved == [ok |-> FALSE, payload |-> ""]
ToolNames == {i.name : i \in ToolInputs}

InitTool ==
    /\ tool = IdleTool
    /\ served = [n \in ToolNames |-> Unserved]

\* what an api method does when it returns, throws, or awaits makeRequest
Return(origin, payload, fields) ==
    [next |-> "return", input |-> ManifestRepoInput, step |-> 0, data |-> "",
     result |-> [kind |-> "return", origin |-> origin, payload |-> payload,
                 fields |-> fields, error |-> NoCause]]
Throw(msg, error) ==
    [next |-> "throw", input |-> ManifestRepoInput, step |-> 0, data |-> "",
     result |-> [kind |-> "throw", origin |-> "", payload |-> "", fields |-> {},
                 error |-> [msg |-> msg, status |-> error.status, code |-> error.code]]]
Request(input, step, data) ==
    [next |-> "request", input |-> input, step |-> step, data |-> data, result |-> NoResult]

\* the error makeRequest raised, as the api method's catch block sees it
Rethrow(res) == Throw(IF res.value = "" THEN "Request failed" ELSE res.value, res.error)

\* callTool's switch and the tool method up to its first makeRequest: the
\* arguments are destructured, never checked against the input schema
firstRequest(name, args) ==
    IF name \notin {"docker_search_images", "docker_get_image_details", "docker_list_tags",
                    "docker_get_manifest"}
    THEN Throw("Unknown tool", NoError)
    ELSE IF args = "undefined" THEN Throw("TypeError", NoError)
    ELSE CASE name = "docker_search_images" -> Request(SearchInput(args), 1, "")
           [] name = "docker_get_image_details" -> Request(DetailsInput, 1, "")
           [] name = "docker_list_tags" -> Request(TagsInput, 1, "")
           [] name = "docker_get_manifest" -> Request(ManifestTagInput, 1, "")

\* what getImageDetails returns when the search fallback found nothing, and
\* what listTags returns after a 401
DefaultImage == Return("placeholder", "", DefaultImageFields)
MockTags == Return("placeholder", "", MockTagFields)

\* a test that takes a missing repository for a missing login
isUnauthorizedOrNotFound(error) == error.status \in {401, 404}

\* error.response?.status === 401 in the catch blocks of getImageDetails and
\* listTags
isUnauthorized(error) == error.status = 401

\* the api method after makeRequest settled with res; found: the search
\* fallback's results hold the repository
afterRequest(t, res, found) ==
    CASE t.name = "docker_search_images" ->
            IF res.kind = "error" THEN Rethrow(res)
            ELSE IF res.value = "" THEN Throw("TypeError", NoError)
            ELSE Return("upstream", res.value, ImageSchemaFields)
      [] t.name = "docker_get_image_details" /\ t.step = 1 ->
            IF res.kind = "value" THEN Return("upstream", res.value, ImageSchemaFields)
            ELSE IF isUnauthorized(res.error) THEN Request(FallbackSearchInput, 2, "")
            ELSE Rethrow(res)
      [] t.name = "docker_get_image_details" /\ t.step = 2 ->
            IF res.kind = "value" /\ res.value # "" /\ found
            THEN Return("search", res.value, ImageSchemaFields)
            ELSE DefaultImage
      [] t.name = "docker_list_tags" ->
            IF res.kind = "value" THEN Return("upstream", res.value, TagSchemaFields)
            ELSE IF isUnauthorized(res.error) THEN MockTags
            ELSE Rethrow(res)
      [] t.name = "docker_get_manifest" /\ t.step = 1 ->
            IF res.kind = "error" \/ res.value = ""
            THEN Return("basic", "", BasicManifestFields)
            ELSE Request(ManifestRepoInput, 2, res.value)
      [] t.name = "docker_get_manifest" /\ t.step = 2 ->
            IF res.kind = "error" THEN Return("basic", "", BasicManifestFields)
            ELSE Return("upstream", t.data, ManifestSchemaFields)

\* the tool method returned or threw
finished(t, result) ==
    [t EXCEPT !.pc = "done", !.result = result]

\* the history after a tool call ended
servedAfter(t, result) ==
    IF t.args = "valid" /\ t.name \in ToolNames
    THEN [served EXCEPT ![t.name] =
            IF result.kind = "return" /\ result.origin = "upstream" /\ result.payload # ""
            THEN [ok |-> TRUE, payload |-> result.payload]
            ELSE Unserved]
    ELSE served

\* the upstream's answers while tools run: a body or none, or 401, 404, 500
ToolHttpOutcomes ==
    {o \in HttpOutcomes : (o.ok /\ o.data # "d2") \/ o.error.status \in {401, 404, 500}}

\* callTool(name, arguments) is called
ToolStart(input, fault) ==
    /\ tool.pc \in {"idle", "done"}
    /\ tool.no < MaxToolCalls
    /\ calls[1].pc \in {"idle", "done"}
    /\ LET f == firstRequest(input.name, input.args)
           t == [IdleTool EXCEPT !.no = tool.no + 1, !.name = input.name, !.args = input.args,
                                 !.repeat = (input.args = "valid" /\ served[input.name].ok),
                                 !.expect = IF input.args = "valid"
                                            THEN served[input.name].payload ELSE ""]
       IN
       IF f.next = "request"
       THEN /\ makeRequestStart(1, f.input, fault)
            /\ tool' = [t EXCEPT !.pc = "run", !.step = f.step, !.requests = 1]
            /\ served' = served
       ELSE /\ tool' = finished(t, f.result)
            /\ served' = servedAfter(t, f.result)
            /\ UNCHANGED apiVars
    /\ UNCHANGED <<rpcVars, clockVars, frameVars, authVars, libVars>>

\* makeRequest has settled: the api method goes on
ToolAdvance(found, fault) ==
    /\ tool.pc = "run"
    /\ calls[1].pc = "done"
    /\ LET a == afterRequest(tool, calls[1].result, found)
           t == [tool EXCEPT !.http = @ + calls[1].sent]
       IN
       IF a.next = "request"
       THEN /\ makeRequestStart(1, a.input, fault)
            /\ tool' = [t EXCEPT !.step = a.step, !.data = a.data, !.requests = @ + 1]
            /\ served' = served
       ELSE /\ tool' = finished(t, a.result)
            /\ served' = servedAfter(t, a.result)
            /\ calls' = [calls EXCEPT ![1] = IdleCall]
            /\ UNCHANGED <<started, cache, limiter>>
    /\ UNCHANGED <<rpcVars, clockVars, frameVars, authVars, libVars>>

\* the 10 s timer getImageDetails races its search fallback against fires
\* first: the rejection is caught and the placeholder returned, while the
\* search's makeRequest goes on
SearchTimeout ==
    /\ tool.pc = "run"
    /\ tool.name = "docker_get_image_details" /\ tool.step = 2
    /\ calls[1].pc # "done"
    /\ tool' = finished(tool, DefaultImage.result)
    /\ served' = servedAfter(tool, DefaultImage.result)
    /\ UNCHANGED apiVars
    /\ UNCHANGED <<rpcVars, clockVars, frameVars, authVars, libVars>>

NextTool ==
    \/ \E input \in ToolInputs : ToolStart(input, "none")
    \/ \E found \in BOOLEAN : ToolAdvance(found, "none")
    \/ SearchTimeout
    \/ \E o \in ToolHttpOutcomes : HttpRespond(1, o)
    \/ RetryTimer(1)

(***************************************************************************)
(* The handlers DockerHubMCPServer registers, and the front end's step     *)
(* when one of them settles.                                               *)
(***************************************************************************)
\* what makeRequest can settle with while a tool waits for it: a body, an
\* empty body, or the error of the last attempt
RequestResults ==
    {[kind |-> "value", value |-> d, error |-> NoError] : d \in {"d1", ""}}
    \cup {[kind |-> "error", value |-> "", error |-> [status |-> st, code |-> "", seq |-> 3]] :
             st \in {500}}

\* the results of callTool(name, arguments): what the tool's method returns
\* or throws once its requests have settled
callTool(name, args) ==
    LET f == firstRequest(name, args)
        t == [IdleTool EXCEPT !.name = name, !.args = args, !.step = f.step]
    IN  IF f.next # "request" THEN {f.result}
        ELSE {a.result : a \in {x \in {afterRequest(t, res, TRUE) : res \in RequestResults} :
                                    x.next # "request"}}

\* the tools/call handler without its try/catch
toolsCallHandlerRethrows(params, res) ==
    IF res.kind = "return"
    THEN [settled |-> "resolved", thrown |-> "",
          value |-> HandlerValue("content", TRUE, "", "", res.payload)]
    ELSE [settled |-> "rejected", thrown |-> res.error.msg,
          value |-> HandlerValue("rejection", FALSE, res.error.msg, "", "")]

\* the tools/call handler once callTool settled with res: the text content
\* is the tool's result, or {success: false, error, tool} when it threw
toolsCallHandler(params, res) ==
    IF res.kind = "return"
    THEN [settled |-> "resolved", thrown |-> "",
          value |-> HandlerValue("content", TRUE, "", "", res.payload)]
    ELSE [settled |-> "resolved", thrown |-> res.error.msg,
          value |-> HandlerValue("content", FALSE, res.error.msg, params.name, "")]

\* what a registered handler does with a request: the outcomes of its
\* promise.  The tools/call handler destructures request.params before its
\* try block; the other handlers return a constant
HandlerOutcomes(method, params) ==
    IF method = "tools/call"
    THEN IF params.present
         THEN {toolsCallHandler(params, res) : res \in callTool(params.name, params.args)}
         ELSE {[settled |-> "rejected", thrown |-> "",
                value |-> HandlerValue("rejection", FALSE, "TypeError", "", "")]}
    ELSE {[settled |-> "resolved", thrown |-> "",
           value |-> HandlerValue(method, TRUE, "", "", "")]}

\* the handler's promise settles: the rest of handleRequest's try/catch
HandlerSettle(c, o) ==
    /\ ~exited
    /\ NoRunnable
    /\ chunks[c].st = "await"
    /\ LET r == chunks[c].req IN
       /\ o \in HandlerOutcomes(reqs[r].method, reqs[r].params)
       /\ output' = output \o settleWrite(reqs[r].id, r, o)
       /\ reqs' = [reqs EXCEPT ![r].state = "done", ![r].outcome = o]
       /\ chunks' = [chunks EXCEPT ![c] = NextLine([@ EXCEPT !.req = 0])]
    /\ prev' = "request"
    /\ UNCHANGED <<isInitialized, taken, exited>>
    /\ UNCHANGED nonRpcVars

AllOutcomes ==
    UNION {HandlerOutcomes(m, p) : m \in handlers, p \in {NoParams, SomeParams} \cup ToolParams}

NextRpc ==
    \/ \E n \in 1..MaxChunkLines : DataEvent(n)
    \/ \E c \in 1..Len(chunks), line \in Lines : HandleLine(c, line)
    \/ \E c \in 1..Len(chunks), o \in AllOutcomes : HandlerSettle(c, o)
    \/ StdinEnd

(***************************************************************************)
(* The cache by itself, with its clock: a client sets and gets one key.    *)
(***************************************************************************)
\* seconds the clock advances in one step
TickSeconds == 300
\* the clock stops here
MaxNow == 7500

\* the key the client of CacheSpec uses
ClientKeys == {"dockerhub:search:q"}
\* the operation names passed to setWithOperationTTL
Operations ==
    {"search", "image_details", "tags", "manifest", "vulnerabilities", "stats", "unknown"}

\* cache.setWithOperationTTL(key, value, operation); node-cache's set
\* throws ECACHEFULL and stores nothing when the store holds maxKeys keys
CacheSet(key, value, operation) ==
    /\ IF cacheFull
       THEN /\ cache' = cache
            /\ lastSet' = [lastSet EXCEPT ![key].threw = TRUE]
       ELSE /\ cache' = setWithOperationTTL(cache, key, value, operation)
            /\ lastSet' = [lastSet EXCEPT ![key] =
                  [set |-> TRUE, value |-> value, operation |-> operation, at |-> now,
                   readBack |-> FALSE, threw |-> FALSE]]
    /\ got' = NoGot
    /\ UNCHANGED <<now, calls, started, limiter>>
    /\ UNCHANGED <<rpcVars, toolVars, frameVars, authVars, libVars>>

\* cache.get(key): an entry past its time is deleted and reported absent
CacheGet(key) ==
    /\ got' = [key |-> key, found |-> cacheGet(key) # "", value |-> cacheGet(key)]
    /\ cache' = IF cache[key].present /\ ~cacheLive(key)
                THEN [cache EXCEPT ![key] = NoEntry]
                ELSE cache
    /\ lastSet' = [lastSet EXCEPT ![key].readBack = @ \/ cacheGet(key) # ""]
    /\ UNCHANGED <<now, calls, started, limiter>>
    /\ UNCHANGED <<rpcVars, toolVars, frameVars, authVars, libVars>>

\* time passes
Tick ==
    /\ now + TickSeconds <= MaxNow
    /\ now' = now + TickSeconds
    /\ got' = NoGot
    /\ UNCHANGED <<lastSet, apiVars, rpcVars, toolVars, frameVars, authVars, libVars>>

\* node-cache's periodic check (checkperiod) deletes the entries past their time
CheckData ==
    /\ \E k \in CacheKeys : cache[k].present /\ ~cacheLive(k)
    /\ cache' = [k \in CacheKeys |-> IF cacheLive(k) THEN cache[k] ELSE NoEntry]
    /\ UNCHANGED <<calls, started, limiter>>
    /\ UNCHANGED <<rpcVars, clockVars, toolVars, frameVars, authVars, libVars>>

\* the keys the client of StoreSpec uses, one more than the store takes
StoreKeys == {"dockerhub:search:q", "dockerhub:image_details:r", "dockerhub:tags:r"}

\* cache.del(key)
CacheDel(key) ==
    /\ cache' = [cache EXCEPT ![key] = NoEntry]
    /\ got' = NoGot
    /\ UNCHANGED <<now, lastSet, calls, started, limiter>>
    /\ UNCHANGED <<rpcVars, toolVars, frameVars, authVars, libVars>>

\* cache.flush()
CacheFlush ==
    /\ cache' = [k \in CacheKeys |-> NoEntry]
    /\ got' = NoGot
    /\ UNCHANGED <<now, lastSet, calls, started, limiter>>
    /\ UNCHANGED <<rpcVars, toolVars, frameVars, authVars, libVars>>

\* the calls of a client of the cache within the shortest TTL, and expiry
NextStore ==
    \/ \E key \in StoreKeys, value \in Bodies \ {""}, operation \in {"search", "unknown"} :
          CacheSet(key, value, operation)
    \/ \E key \in StoreKeys : CacheDel(key)
    \/ CacheFlush
    \/ \E key \in StoreKeys : CacheExpire(key)

NextCache ==
    \/ \E key \in ClientKeys, value \in Bodies \ {""}, operation \in Operations :
          CacheSet(key, value, operation)
    \/ \E key \in ClientKeys : CacheGet(key)
    \/ Tick
    \/ CheckData

NextApi ==
    \/ \E c \in Solo, input \in MakeRequestInputs, fault \in RlFaults :
          StartCall(c, input, fault)
    \/ \E c \in Solo : RateLimitTimer(c)
    \/ \E c \in Solo, o \in HttpOutcomes : HttpRespond(c, o)
    \/ \E c \in Solo : RetryTimer(c)
    \/ \E key \in RlKeys : WindowReset(key)
    \/ \E key \in CacheKeys : CacheExpire(key)

\* the steps of makeRequest while the limiter's store works: every
\* checkRateLimit call gets an answer from consume
NextApiFair ==
    \/ \E c \in Solo, input \in MakeRequestInputs, fault \in {"none"} :
          StartCall(c, input, fault)
    \/ \E c \in Solo : RateLimitTimer(c)
    \/ \E c \in Solo, o \in HttpOutcomes : HttpRespond(c, o)
    \/ \E c \in Solo : RetryTimer(c)
    \/ \E key \in RlKeys : WindowReset(key)
    \/ \E key \in CacheKeys : CacheExpire(key)

(***************************************************************************)
(* Framing: the data callback on the bytes of stdin.  A request line is    *)
(* the text of a ping request, three characters in the model, and "nl" is  *)
(* the newline character.  A 'data' event delivers any non-empty prefix of *)
(* the bytes written so far.                                               *)
(***************************************************************************)
\* request lines the client writes in one behaviour
MaxFrames == 3

\* JSON.stringify({jsonrpc: "2.0", id, method: "ping"})
RequestText(id) == <<"{", IF id = 1 THEN "1" ELSE "2", "}">>

\* data.toString().split('\n'), piece: the characters since the last newline
RECURSIVE split(_, _)
split(data, piece) ==
    IF data = <<>> THEN <<piece>>
    ELSE IF Head(data) = "nl" THEN <<piece>> \o split(Tail(data), <<>>)
    ELSE split(Tail(data), Append(piece, Head(data)))

\* JSON.parse(trimmedLine): the id of the request, or a SyntaxError
parse(piece) ==
    IF \E id \in Ids : piece = RequestText(id)
    THEN [ok |-> TRUE, id |-> CHOOSE id \in Ids : piece = RequestText(id)]
    ELSE [ok |-> FALSE, id |-> NoId]

\* the for loop over the lines of one data event: what it writes; n counts
\* the requests handled before
RECURSIVE handleLines(_, _)
handleLines(lines, n) ==
    IF lines = <<>> THEN <<>>
    ELSE IF Head(lines) = <<>> \/ ~parse(Head(lines)).ok
    THEN handleLines(Tail(lines), n)
    ELSE <<sendResponse(parse(Head(lines)).id, n + 1, [pong |-> TRUE])>>
         \o handleLines(Tail(lines), n + 1)

InitFrame ==
    /\ stdin = <<>>
    /\ written = <<>>

\* the client writes a ping request and a newline
ClientWrite(id) ==
    /\ Len(written) < MaxFrames
    /\ stdin' = stdin \o RequestText(id) \o <<"nl">>
    /\ written' = Append(written, id)
    /\ UNCHANGED <<rpcVars, apiVars, clockVars, toolVars, authVars, libVars>>

\* process.stdin.on('data') with the first n characters
StdinData(n) ==
    /\ ~exited
    /\ n \in 1..Len(stdin)
    /\ output' = output \o handleLines(split(SubSeq(stdin, 1, n), <<>>), Len(output))
    /\ stdin' = SubSeq(stdin, n + 1, Len(stdin))
    /\ UNCHANGED <<isInitialized, chunks, reqs, taken, prev, exited, written>>
    /\ UNCHANGED <<apiVars, clockVars, toolVars, authVars, libVars>>

NextFrame ==
    \/ \E id \in Ids : ClientWrite(id)
    \/ \E n \in 1..(MaxFrames * (Len(RequestText(1)) + 1)) : StdinData(n)

(***************************************************************************)
(* Authentication: the request interceptor and getBearerToken of a service *)
(* whose registry has a username and a password.  Times are in seconds.    *)
(***************************************************************************)
\* requests that go through the interceptor in one behaviour
MaxAuthRequests == 3
\* seconds the clock advances in one step, and where it stops
AuthTickSeconds == 1800
MaxAuthNow == 7200

\* tokenExpiry = Date.now() + 60 * 60 * 1000
TokenLifetime == 3600

\* the credentials of the registry: "token", "password" or "none"
RegistryCredentials == "password"

NoToken == ""

InitAuth ==
    auth = [bearerToken |-> NoToken, tokenExpiry |-> 0,
            pc |-> [c \in Callers |-> "idle"], header |-> [c \in Callers |-> ""],
            started |-> 0, logins |-> <<>>]

\* getBearerToken: "Check if we have a valid token"
tokenValid == auth.bearerToken # NoToken /\ now < auth.tokenExpiry

\* the Authorization header the interceptor sets for a token
authorization(bearerToken) ==
    IF bearerToken = NoToken THEN ""
    ELSE IF RegistryCredentials = "token" THEN "Token" ELSE "Bearer"

\* httpClient.request: the request interceptor calls getBearerToken, which
\* returns the cached token or posts to /v2/users/login/
InterceptRequest(c) ==
    /\ auth.pc[c] = "idle"
    /\ auth.started < MaxAuthRequests
    /\ auth' =
          IF RegistryCredentials = "none"
          THEN [auth EXCEPT !.pc[c] = "request", !.header[c] = "", !.started = @ + 1]
          ELSE IF tokenValid
          THEN [auth EXCEPT !.pc[c] = "request", !.started = @ + 1,
                            !.header[c] = authorization(auth.bearerToken)]
          ELSE IF RegistryCredentials = "token"
          THEN [auth EXCEPT !.pc[c] = "request", !.started = @ + 1,
                            !.bearerToken = "registry.token",
                            !.tokenExpiry = now + TokenLifetime,
                            !.header[c] = authorization("registry.token")]
          ELSE [auth EXCEPT !.pc[c] = "login", !.started = @ + 1,
                            !.logins = Append(@, [at |-> now, by |-> c,
                                                  cached |-> auth.bearerToken # NoToken
                                                             /\ now < auth.tokenExpiry,
                                                  outcome |-> "pending"])]
    /\ UNCHANGED <<rpcVars, apiVars, clockVars, toolVars, frameVars, libVars>>

\* the login call of caller c, the last one it posted
loginOf(c) ==
    CHOOSE i \in DOMAIN auth.logins :
        auth.logins[i].by = c /\ auth.logins[i].outcome = "pending"

\* axios.post(authUrl) settles: the token is stored for an hour, or the
\* interceptor logs a warning and the request goes on without a header
LoginRespond(c, ok) ==
    /\ auth.pc[c] = "login"
    /\ auth' =
          IF ok
          THEN [auth EXCEPT !.pc[c] = "request", !.bearerToken = "response.data.token",
                            !.tokenExpiry = now + TokenLifetime,
                            !.header[c] = authorization("response.data.token"),
                            !.logins[loginOf(c)].outcome = "ok"]
          ELSE [auth EXCEPT !.pc[c] = "request", !.header[c] = "",
                            !.logins[loginOf(c)].outcome = "failed"]
    /\ UNCHANGED <<rpcVars, apiVars, clockVars, toolVars, frameVars, libVars>>

\* the upstream request of caller c completes
RequestDone(c) ==
    /\ auth.pc[c] = "request"
    /\ auth' = [auth EXCEPT !.pc[c] = "idle", !.header[c] = ""]
    /\ UNCHANGED <<rpcVars, apiVars, clockVars, toolVars, frameVars, libVars>>

\* time passes
AuthTick ==
    /\ now + AuthTickSeconds <= MaxAuthNow
    /\ now' = now + AuthTickSeconds
    /\ UNCHANGED <<got, lastSet, rpcVars, apiVars, toolVars, frameVars, authVars, libVars>>

NextAuth ==
    \/ \E c \in Callers : InterceptRequest(c)
    \/ \E c \in Callers, ok \in BOOLEAN : LoginRespond(c, ok)
    \/ \E c \in Callers : RequestDone(c)
    \/ AuthTick

(***************************************************************************)
(* Two callers of makeRequest at once (the Promise.all of compareImages,   *)
(* tool calls of two data events), within the TTL of what they cache.      *)
(***************************************************************************)
\* both callers run searchImages with the same query
ConcInputs == {[url |-> SearchUrl, cacheKey |-> "dockerhub:search:q"]}

\* the upstream's answers: a body, another body, or 500
ConcHttpOutcomes ==
    {o \in HttpOutcomes : (o.ok /\ o.data # "") \/ o.error.status = 500}

NextConc ==
    \/ \E c \in Callers, input \in ConcInputs : StartCall(c, input, "none")
    \/ \E c \in Callers : RateLimitTimer(c)
    \/ \E c \in Callers, o \in ConcHttpOutcomes : HttpRespond(c, o)
    \/ \E c \in Callers : RetryTimer(c)
    \/ \E key \in RlKeys : WindowReset(key)

(***************************************************************************)
(* The pure functions of the services, applied to drawn arguments:         *)
(* RateLimiterService.getBackoffDelay and CacheService.generateKey.        *)
(***************************************************************************)
\* the largest attempt number passed to getBackoffDelay
MaxBackoffAttempt == 6
\* the largest number of parameters passed to generateKey
MaxParams == 2

NoBackoffCall == [attempt |-> 0 - 1, jitter |-> 0, delay |-> 0]

\* getBackoffDelay(attempt) is called and Math.random() * 1000 gives jitter
GetBackoffDelay(attempt, jitter) ==
    /\ backoff' = [last |-> [attempt |-> attempt, jitter |-> jitter,
                             delay |-> getBackoffDelay(attempt, jitter)],
                   before |-> backoff.last]
    /\ UNCHANGED <<keyed, rpcVars, apiVars, clockVars, toolVars, frameVars, authVars>>

NextBackoff ==
    \E attempt \in 0..MaxBackoffAttempt, jitter \in Jitters : GetBackoffDelay(attempt, jitter)

\* strings as sequences of UTF-16 code units: the names "B", "a", "ab", "b",
\* the operations "search" and "tags", the text "dockerhub"
ParamNames == {<<66>>, <<97>>, <<97, 98>>, <<98>>}
ParamValues == {1, 2}
OperationNames == {<<115, 101, 97, 114, 99, 104>>, <<116, 97, 103, 115>>}
Dockerhub == <<100, 111, 99, 107, 101, 114, 104, 117, 98>>
Colon == <<58>>
Bar == <<124>>

\* `${value}` of a one-digit number
toString(value) == <<48 + value>>

\* the comparison of Array.prototype.sort without a compare function: by
\* code units, a proper prefix first
RECURSIVE codeUnitLess(_, _)
codeUnitLess(a, b) ==
    IF b = <<>> THEN FALSE
    ELSE IF a = <<>> THEN TRUE
    ELSE IF Head(a) # Head(b) THEN Head(a) < Head(b)
    ELSE codeUnitLess(Tail(a), Tail(b))

RECURSIVE insert(_, _)
insert(name, sorted) ==
    IF sorted = <<>> THEN <<name>>
    ELSE IF codeUnitLess(name, Head(sorted)) THEN <<name>> \o sorted
    ELSE <<Head(sorted)>> \o insert(name, Tail(sorted))

RECURSIVE insertAll(_)
insertAll(names) ==
    IF names = <<>> THEN <<>> ELSE insert(Head(names), insertAll(Tail(names)))

\* a sort that leaves the names in insertion order
sortKeepsOrder(names) == names

\* Object.keys(params).sort()
sort(names) == insertAll(names)

\* params[key] of an object given as its properties in insertion order
valueOf(params, name) ==
    params[CHOOSE i \in 1..Len(params) : params[i].name = name].value

\* .join('|')
RECURSIVE join(_, _)
join(parts, separator) ==
    IF parts = <<>> THEN <<>>
    ELSE IF Len(parts) = 1 THEN Head(parts)
    ELSE Head(parts) \o separator \o join(Tail(parts), separator)

\* CacheService.generateKey(operation, params)
generateKey(operation, params) ==
    LET names == sort([i \in 1..Len(params) |-> params[i].name])
        sortedParams ==
            join([i \in 1..Len(names) |->
                    names[i] \o Colon \o toString(valueOf(params, names[i]))], Bar)
    IN Dockerhub \o Colon \o operation \o Colon \o sortedParams

\* objects with up to MaxParams properties, as the sequence of their
\* properties in insertion order
ParamObjects ==
    UNION {{p \in [1..n -> [name : ParamNames, value : ParamValues]] :
               \A i, j \in 1..n : i # j => p[i].name # p[j].name} : n \in 0..MaxParams}

NoKeyCall == [operation |-> <<>>, params |-> <<>>, key |-> <<>>]

\* generateKey(operation, params) is called
GenerateKey(operation, params) ==
    /\ keyed' = [operation |-> operation, params |-> params,
                 key |-> generateKey(operation, params)]
    /\ UNCHANGED <<backoff, rpcVars, apiVars, clockVars, toolVars, frameVars, authVars>>

NextKey ==
    \E operation \in OperationNames, params \in ParamObjects : GenerateKey(operation, params)

InitLib ==
    /\ backoff = [last |-> NoBackoffCall, before |-> NoBackoffCall]
    /\ keyed = NoKeyCall

Init == InitRpc /\ InitApi /\ InitClock /\ InitTool /\ InitFrame /\ InitAuth /\ InitLib

Spec == Init /\ [][NextRpc]_vars

ApiSpec == Init /\ [][NextApi]_vars

CacheSpec == Init /\ [][NextCache]_vars

ToolSpec == Init /\ [][NextTool]_vars

FrameSpec == Init /\ [][NextFrame]_vars

AuthSpec == Init /\ [][NextAuth]_vars

ConcSpec == Init /\ [][NextConc]_vars

StoreSpec == Init /\ [][NextStore]_vars

BackoffSpec == Init /\ [][NextBackoff]_vars

KeySpec == Init /\ [][NextKey]_vars

ApiFairness ==
    /\ \A c \in Callers : WF_vars(RateLimitTimer(c))
    /\ \A c \in Callers : WF_vars(RetryTimer(c))
    /\ \A c \in Callers : WF_vars(\E o \in HttpOutcomes : HttpRespond(c, o))
    /\ \A key \in RlKeys : WF_vars(WindowReset(key))

ApiFairSpec == Init /\ [][NextApiFair]_vars /\ ApiFairness

(***************************************************************************)
(* Properties of the RPC front end (checked under Spec).                   *)
(***************************************************************************)
HasId(r) == reqs[r].id # NoId

\* the positions of the responses written for request r
Responses(r) ==
    {k \in DOMAIN output : output[k].req = r /\ output[k].type \in {"result", "error"}}

InitializeProcessedBefore(r) ==
    \E q \in 1..(r - 1) : HasId(q) /\ reqs[q].method = "initialize"

\* C2: a request for a registered method handled before any initialize
\* request is answered with the error 'Server not initialized' and its
\* handler is not invoked; handled after an initialize request it is
\* dispatched to its handler and answered with what the handler returns.
C2_Handshake ==
    \A r \in 1..Len(reqs) : (HasId(r) /\ reqs[r].method \in handlers) =>
        IF ~InitializeProcessedBefore(r)
        THEN /\ reqs[r].invoked = 0
             /\ \E k \in Responses(r) :
                   /\ output[k].type = "error"
                   /\ output[k].body.message = "Server not initialized"
        ELSE /\ reqs[r].invoked = 1
             /\ reqs[r].state = "done" =>
                   \E k \in Responses(r) :
                       IF reqs[r].outcome.settled = "resolved"
                       THEN /\ output[k].type = "result"
                            /\ output[k].body = reqs[r].outcome.value
                       ELSE /\ output[k].type = "error"
                            /\ output[k].body.message = reqs[r].outcome.value.error

\* the same tools/call request was rejected before initialize and served after
C2_Witness ==
    \E r, q \in 1..Len(reqs) :
        /\ r < q
        /\ reqs[r].method = "tools/call" /\ reqs[q].method = "tools/call"
        /\ HasId(r) /\ reqs[r].id = reqs[q].id /\ reqs[r].params = reqs[q].params
        /\ \E k \in Responses(r) : output[k].type = "error"
        /\ \E k \in Responses(q) : output[k].type = "result"

\* C3: an initialize request with id i leaves the session initialized and
\* its response (id i, protocolVersion, capabilities, serverInfo) is
\* immediately followed in the output by the 'initialized' notification;
\* the notification is written nowhere else.
C3_InitializeExchange ==
    /\ \A r \in 1..Len(reqs) : (HasId(r) /\ reqs[r].method = "initialize") =>
          /\ isInitialized
          /\ \E k \in Responses(r) :
                /\ output[k].type = "result" /\ output[k].id = reqs[r].id
                /\ output[k].body.protocolVersion = ProtocolVersion
                /\ output[k].body.capabilities = "capabilities"
                /\ output[k].body.serverInfo = "serverInfo"
                /\ k < Len(output)
                /\ output[k + 1] = initializedNotification
    /\ \A k \in DOMAIN output : output[k].type = "notification" =>
          /\ k > 1
          /\ output[k - 1].type = "result"
          /\ reqs[output[k - 1].req].method = "initialize"

\* an initialize exchange with other responses before and after it
C3_Witness ==
    \E k \in DOMAIN output :
        /\ output[k].type = "notification"
        /\ k > 2
        /\ k < Len(output)

(***************************************************************************)
(* Properties of makeRequest (checked under ApiSpec and ApiFairSpec).      *)
(***************************************************************************)
\* C4: a makeRequest call issues at most 3 HTTP attempts; when every
\* attempt was answered with HTTP 500 it has issued exactly 3 attempts and
\* raises the error of the third.
C4_RetryBound ==
    \A c \in Callers :
        /\ calls[c].sent <= 3
        /\ (calls[c].pc = "done" /\ calls[c].sent >= 1 /\ calls[c].n500 = calls[c].sent) =>
              /\ calls[c].sent = 3
              /\ calls[c].result.kind = "error"
              /\ calls[c].result.error = [status |-> 500, code |-> "", seq |-> 3]

\* a call ended after three attempts that all returned 500
C4_Witness ==
    \E c \in Callers :
        calls[c].pc = "done" /\ calls[c].n500 = 3 /\ calls[c].result.kind = "error"

NonRetryable(e) == e.status # 429 /\ ~(e.status >= 500) /\ e.code # "ECONNRESET"

C6_RateLimitedNotCounted ==
    \A c \in Callers :
        /\ calls[c].wait.kind = "backoff" =>
              calls[c].wait.arg = calls[c].sent - calls[c].n429
        /\ ~(calls[c].pc = "done" /\ calls[c].result.kind = "error"
             /\ calls[c].result.error.status = 429)

\* C7: an attempt that ran into the client timeout is retried when it was
\* not the third: the call does not end with the timeout error of its
\* first or second attempt.
C7_TimeoutRetried ==
    \A c \in Callers :
        ~(/\ calls[c].pc = "done"
          /\ calls[c].result.kind = "error"
          /\ calls[c].result.error.code = "ECONNABORTED"
          /\ calls[c].result.error.seq < 3)

\* makeRequest is entered by caller c in this step
Starts(c) == started' = started + 1 /\ calls'[c].no = started'

\* call c consults the cache in this step
LooksUp(c) ==
    /\ Starts(c) \/ (calls[c].pc = "rl_wait" /\ calls'[c].pc # "rl_wait")
    /\ calls'[c].lookups = 1

\* C8: when the cache lookup of a makeRequest call finds a live entry for
\* its cacheKey the call returns exactly the stored value, has issued no
\* HTTP request and leaves the cache as it is.
C8_CacheHit ==
    [][\A c \in Callers :
          /\ (LooksUp(c) /\ cache[calls'[c].cacheKey].present) =>
                /\ calls'[c].pc = "done"
                /\ calls'[c].result.kind = "value"
                /\ calls'[c].result.value = cache[calls'[c].cacheKey].value
                /\ calls'[c].sent = 0
                /\ cache' = cache
          /\ calls'[c].hit => (calls'[c].sent = 0 /\ calls'[c].pc = "done")]_vars

\* a call returned a cached body without an HTTP attempt
C8_Witness ==
    \E c \in Callers :
        /\ calls[c].hit /\ calls[c].pc = "done" /\ calls[c].sent = 0
        /\ calls[c].result.value \in {"d1", "d2"}

\* C9: every makeRequest call consumes exactly one point of the quota of
\* its subject key when it starts (none when consume itself fails with a
\* store error), whether it goes on to a cache hit or to HTTP attempts, and
\* no other step of a call consumes quota.
C9_OneAdmissionPerCall ==
    [][IF started' = started + 1
       THEN \E c \in Callers :
               /\ Starts(c)
               /\ LET key == rateLimitKey("GET", calls'[c].url) IN
                  /\ limiter'[key].consumed =
                        IF calls'[c].fault = "consume" THEN limiter[key].consumed
                        ELSE limiter[key].consumed + 1
                  /\ \A k \in RlKeys \ {key} : limiter'[k] = limiter[k]
       ELSE \A k \in RlKeys :
               limiter'[k].consumed = limiter[k].consumed \/ limiter'[k].consumed = 0]_vars

\* two calls for one key, a miss with three attempts and a hit, took two points
C9_Witness ==
    \E c \in Callers :
        /\ calls[c].hit
        /\ started = 2
        /\ limiter[rateLimitKey("GET", calls[c].url)].consumed = 2

\* C10: a call denied admission does not fail because of the denial, and a
\* call waiting for the window to end goes on to the cache lookup and, on a
\* miss, to the HTTP call.
C10_DeniedIsDelayed ==
    /\ [](\A c \in Callers :
            calls[c].denied =>
                ~(calls[c].pc = "done" /\ calls[c].result.kind = "error"
                  /\ calls[c].sent = 0))
    /\ \A c \in Callers :
          (calls[c].denied /\ calls[c].pc = "rl_wait")
              ~> (calls[c].denied /\ (calls[c].hit \/ calls[c].sent >= 1))

\* a denied call went on to an HTTP attempt
C10_Witness ==
    \E c \in Callers :
        calls[c].denied /\ calls[c].sent >= 1 /\ calls[c].lookups = 1

\* C11: from a fresh record of a subject key (none yet, or the window has
\* reset) the first RequestsPerMinute checkRateLimit calls for the key return
\* true and the next one returns false: a call is admitted exactly when fewer
\* than RequestsPerMinute calls for its key were counted in the window so far.
C11_Admission ==
    [][\A c \in Callers :
          (Starts(c) /\ calls'[c].fault = "none") =>
              LET key == rateLimitKey("GET", calls'[c].url) IN
              calls'[c].allowed =
                  IF limiter[key].consumed < RequestsPerMinute THEN "true" ELSE "false"]_vars

\* after a window in which the quota was used up and a call denied, the
\* window was reset and the next call for the key was admitted
C11_Witness ==
    \E c \in Callers :
        LET key == rateLimitKey("GET", calls[c].url) IN
        /\ started = RequestsPerMinute + 2
        /\ calls[c].no = started
        /\ calls[c].fault = "none" /\ calls[c].allowed = "true"
        /\ limiter[key].consumed = 1
        /\ limiter[key].exceeded

RECURSIVE SumAdmitted(_)
SumAdmitted(keys) ==
    IF keys = {} THEN 0
    ELSE LET k == CHOOSE x \in keys : TRUE IN
         limiter[k].admitted + SumAdmitted(keys \ {k})

\* the subject keys whose record is live and not blocked: every point of such
\* a record was consumed within the last 60 seconds
OpenKeys == {k \in RlKeys : limiter[k].consumed \in 1..RequestsPerMinute}

\* C12: the requests admitted for the registry within one window, summed
\* over all methods and paths, never exceed requestsPerMinute.
C12_PerUpstreamQuota ==
    SumAdmitted(OpenKeys) <= RequestsPerMinute

(***************************************************************************)
(* Properties of the cache (checked under CacheSpec).                      *)
(***************************************************************************)
\* the TTL table of the claim, in seconds
ClaimedTTL(operation) ==
    CASE operation = "search" -> 300
      [] operation = "image_details" -> 600
      [] operation = "tags" -> 900
      [] operation = "manifest" -> 1800
      [] operation = "vulnerabilities" -> 3600
      [] operation = "stats" -> 7200
      [] OTHER -> ConfigTtl

ToolHttp == tool.http + (IF tool.pc = "run" THEN calls[1].sent ELSE 0)

\* C14: an error raised by the cache during makeRequest (here: the store is
\* full when the response is to be cached) never makes makeRequest fail; the
\* upstream data is still returned.
C14_CacheAdvisory ==
    \A c \in Callers :
        ~(/\ calls[c].pc = "done"
          /\ calls[c].result.kind = "error"
          /\ calls[c].result.error.code = "ECACHEFULL")

\* C16: a tool call with the arguments of an earlier call that was served
\* from the upstream, repeated while the cached data is live, issues no HTTP
\* request and returns the payload of the earlier call.
C16_RepeatIsCacheHit ==
    tool.repeat =>
        /\ ToolHttp = 0
        /\ (tool.pc = "done" /\ tool.result.kind = "return") =>
               tool.result.payload = tool.expect

\* C17: a placeholder that an api method returns after a 401 carries a
\* field that real upstream data (an image, a tag) does not have.
C17_PlaceholderMarked ==
    (tool.pc = "done" /\ tool.result.origin = "placeholder") =>
        tool.result.fields \ (ImageSchemaFields \cup TagSchemaFields) # {}

\* C18: a tool call whose arguments violate the input schema is rejected
\* before a point of the quota is consumed and before any HTTP request.
C18_ValidationFirst ==
    tool.args = "invalid" =>
        /\ tool.requests = 0
        /\ ToolHttp = 0
        /\ tool.pc = "done" => tool.result.kind = "throw"

(***************************************************************************)
(* Properties of the handlers (checked under Spec).                        *)
(***************************************************************************)
Rejected(r) == reqs[r].outcome.settled = "rejected"

\* C19: when a registered handler rejects, the front end writes exactly one
\* error response for the request, with the request's id, code -32603 and
\* the error's message; the step that writes it neither ends the process
\* nor changes the session, the data callback goes on with the next line of
\* its chunk, and every request handled after it is answered exactly once,
\* a registered method by invoking its handler.
C19_HandlerErrorAnswered ==
    /\ [](\A r \in 1..Len(reqs) : Rejected(r) =>
            /\ Cardinality(Responses(r)) = 1
            /\ \A k \in Responses(r) :
                  /\ output[k].type = "error"
                  /\ output[k].id = reqs[r].id
                  /\ output[k].body.code = InternalErrorCode
                  /\ output[k].body.message = reqs[r].outcome.value.error
            /\ \A q \in (r + 1)..Len(reqs) :
                  /\ reqs[q].state = "done" => Cardinality(Responses(q)) = 1
                  /\ reqs[q].method \in handlers => reqs[q].invoked = 1)
    /\ [][\A c \in 1..Len(chunks) :
            (chunks[c].st = "await"
             /\ reqs'[chunks[c].req].outcome.settled = "rejected")
            => /\ exited' = FALSE
               /\ isInitialized' = isInitialized
               /\ Len(output') = Len(output) + 1
               /\ chunks'[c].st = IF chunks[c].left = 1 THEN "done" ELSE "run"]_vars

\* a handler rejected, its request was answered with the error, and a
\* request received after it got its handler's result
C19_Witness ==
    /\ ~exited
    /\ \E r, q \in 1..Len(reqs) :
          /\ r < q
          /\ Rejected(r)
          /\ \E k \in Responses(r) : output[k].body.code = InternalErrorCode
          /\ reqs[q].method \in handlers /\ reqs[q].outcome.settled = "resolved"
          /\ \E k \in Responses(q) : output[k].type = "result"

\* C20: whenever the tool of a tools/call request threw (an unknown tool
\* name, a failed upstream request, an exception in the tool), the handler
\* resolved and the one response for the request is a result whose text
\* content is {success: false, error: the message thrown, tool: the name}.
C20_ToolErrorsInBand ==
    \A r \in 1..Len(reqs) :
        (reqs[r].method = "tools/call" /\ reqs[r].outcome.thrown # "") =>
            /\ reqs[r].outcome.settled = "resolved"
            /\ Cardinality(Responses(r)) = 1
            /\ \A k \in Responses(r) :
                  /\ output[k].type = "result"
                  /\ output[k].id = reqs[r].id
                  /\ output[k].body.success = FALSE
                  /\ output[k].body.error = reqs[r].outcome.thrown
                  /\ output[k].body.tool = reqs[r].params.name

\* an unknown tool and a tool whose upstream request failed were both
\* answered in-band
C20_Witness ==
    \E r, q \in 1..Len(reqs) :
        /\ reqs[r].outcome.thrown = "Unknown tool"
        /\ reqs[q].outcome.thrown = "Request failed"
        /\ \A x \in {r, q} : \E k \in Responses(x) :
              output[k].type = "result" /\ output[k].body.success = FALSE

(***************************************************************************)
(* Properties of the data callback (checked under Spec).                   *)
(***************************************************************************)
\* the positions of all responses written so far
AllResponses == {k \in DOMAIN output : output[k].type \in {"result", "error"}}

\* the requests whose handling has finished
Handled == {r \in 1..Len(reqs) : reqs[r].state = "done"}

\* C21: a line that fails JSON parsing writes nothing, logs no request,
\* leaves the session and the process as they are, and the loop of the data
\* callback goes on with the next line of the chunk; the responses written
\* are exactly one per handled request, and a request that follows a corrupt
\* line in its chunk is answered once.
C21_MalformedLine ==
    /\ [][(prev' = "garbage" /\ chunks' # chunks) =>
            /\ output' = output
            /\ reqs' = reqs
            /\ isInitialized' = isInitialized
            /\ exited' = FALSE
            /\ \E c \in 1..Len(chunks) :
                  /\ chunks[c].st = "run"
                  /\ chunks' = [chunks EXCEPT ![c] = NextLine(@)]]_vars
    /\ [](/\ Cardinality(AllResponses) = Cardinality(Handled)
          /\ \A r \in 1..Len(reqs) :
                (reqs[r].after = "garbage" /\ reqs[r].state = "done") =>
                    /\ Cardinality(Responses(r)) = 1
                    /\ \A k \in Responses(r) : output[k].id = reqs[r].id)

\* a chunk of one corrupt line followed by one request line: one response
C21_Witness ==
    /\ taken = 2
    /\ Len(chunks) = 1
    /\ chunks[1].st = "done"
    /\ Len(reqs) = 1
    /\ reqs[1].after = "garbage"
    /\ Cardinality(AllResponses) = 1
    /\ \E k \in Responses(1) : output[k].type = "result"

\* the step logs a new request: handleRequest was called with an id
Logged(r) == Len(reqs) + 1 = r /\ Len(reqs') = r

\* the methods handleRequest answers itself
BuiltIn == {"initialize", "ping"}

\* C22: in an initialized session a request with an id whose method is
\* neither initialize nor ping and has no registered handler is answered
\* with the error 'Method not found: <method>' and code -32601, no handler
\* is invoked, and the step leaves the session state as it is.
C22_MethodNotFound ==
    /\ [](\A r \in 1..Len(reqs) :
            (reqs[r].initAtDispatch /\ reqs[r].method \notin handlers \cup BuiltIn) =>
                /\ reqs[r].invoked = 0
                /\ reqs[r].state = "done"
                /\ Cardinality(Responses(r)) = 1
                /\ \A k \in Responses(r) :
                      /\ output[k].type = "error"
                      /\ output[k].id = reqs[r].id
                      /\ output[k].body.code = 0 - 32601
                      /\ output[k].body.message = methodNotFoundMessage(reqs[r].method))
    /\ [][\A r \in 1..(Len(reqs) + 1) :
            (Logged(r) /\ reqs'[r].method \notin handlers \cup BuiltIn) =>
                isInitialized' = isInitialized]_vars

\* an unregistered method was answered in an initialized session
C22_Witness ==
    \E r \in 1..Len(reqs) :
        /\ reqs[r].initAtDispatch
        /\ reqs[r].method = "no/such"
        /\ isInitialized
        /\ \E k \in Responses(r) : output[k].body.message = "Method not found: no/such"

\* C23: a ping request with an id is answered with the result {pong: true}
\* whether or not the session is initialized, no handler is invoked for it,
\* and the step leaves the session state as it is.
C23_Ping ==
    /\ [](\A r \in 1..Len(reqs) : reqs[r].method = "ping" =>
            /\ reqs[r].invoked = 0
            /\ reqs[r].state = "done"
            /\ "ping" \notin handlers
            /\ Cardinality(Responses(r)) = 1
            /\ \A k \in Responses(r) :
                  /\ output[k].type = "result"
                  /\ output[k].id = reqs[r].id
                  /\ output[k].body = [pong |-> TRUE])
    /\ [][\A r \in 1..(Len(reqs) + 1) :
            (Logged(r) /\ reqs'[r].method = "ping") =>
                isInitialized' = isInitialized]_vars

\* ping was answered before any initialize request and again after one
C23_Witness ==
    \E r, q \in 1..Len(reqs) :
        /\ reqs[r].method = "ping" /\ ~reqs[r].initAtDispatch
        /\ reqs[q].method = "ping" /\ reqs[q].initAtDispatch
        /\ \A x \in {r, q} : \E k \in Responses(x) : output[k].type = "result"

\* the requests whose handler has been called and has not settled
InFlight == {r \in 1..Len(reqs) : reqs[r].state = "await"}

\* C24: a message without an id, whatever its method, writes nothing,
\* invokes no handler and logs no request, leaves the session state as it
\* is, and leaves every request in flight and every other data callback as
\* they are; nothing written and no request handled is without an id.
C24_NotificationIgnored ==
    /\ [][(prev' = "notification" /\ chunks' # chunks) =>
            /\ output' = output
            /\ reqs' = reqs
            /\ isInitialized' = isInitialized
            /\ exited' = exited
            /\ \E c \in 1..Len(chunks) :
                  /\ chunks[c].st = "run"
                  /\ chunks' = [chunks EXCEPT ![c] = NextLine(@)]]_vars
    /\ [](/\ \A r \in 1..Len(reqs) : reqs[r].id # NoId
          /\ \A k \in AllResponses : output[k].id # NoId
          /\ \A r \in Handled : reqs[r].invoked = 1 => Cardinality(Responses(r)) = 1)

\* a notification has just been ignored while a request is in flight
C24_Witness ==
    /\ prev = "notification"
    /\ InFlight # {}
    /\ \E r \in InFlight : Responses(r) = {}

\* the kind of an error response, told by its message
ErrorKind(k) ==
    IF output[k].body.message = "Server not initialized" THEN "not-initialized"
    ELSE IF output[k].body.message \in {methodNotFoundMessage(m) : m \in {"no/such"}}
    THEN "method-not-found"
    ELSE "internal-error"

ErrorResponses == {k \in DOMAIN output : output[k].type = "error"}

\* C25: the error responses of two different kinds (internal error, method
\* not found, not initialized) carry different codes, and those of one kind
\* carry the same code.
C25_DistinctCodes ==
    \A k, j \in ErrorResponses :
        (ErrorKind(k) = ErrorKind(j)) <=> (output[k].body.code = output[j].body.code)

\* C26: while a tools/call request is suspended in its handler no line that
\* was received with it in the same data chunk is kept waiting for it.
C26_NoHeadOfLineBlocking ==
    \A c \in 1..Len(chunks) :
        (chunks[c].st = "await" /\ reqs[chunks[c].req].method = "tools/call"
         /\ reqs[chunks[c].req].params.present) =>
            chunks[c].left = 1

\* C28: when the process has exited after the end of stdin, no request that
\* was received before is left without its response.
C28_DrainOnClose ==
    exited => \A r \in 1..Len(reqs) : Cardinality(Responses(r)) = 1

(***************************************************************************)
(* Properties of the framing (checked under FrameSpec).                    *)
(***************************************************************************)
\* what is written when every request line arrives in a data event of its own
LineByLine ==
    [k \in 1..Len(written) |-> sendResponse(written[k], k, [pong |-> TRUE])]

\* C27: once every byte written has been delivered, the responses are those
\* of the request lines written, however the bytes were divided into data
\* events.
C27_ChunkingIndependent ==
    stdin = <<>> => output = LineByLine

(***************************************************************************)
(* Properties of the authentication (checked under AuthSpec).              *)
(***************************************************************************)
\* C30: two login calls are at least one token lifetime apart unless the
\* earlier one failed, and no login call is made while a token that has not
\* expired is cached.
C30_LoginOnce ==
    /\ \A i, j \in DOMAIN auth.logins :
          (i < j /\ auth.logins[i].outcome # "failed") =>
              auth.logins[j].at >= auth.logins[i].at + TokenLifetime
    /\ \A i \in DOMAIN auth.logins : ~auth.logins[i].cached

(***************************************************************************)
(* Properties of concurrent makeRequest calls (checked under ConcSpec).    *)
(***************************************************************************)
\* C29: makeRequest calls are not collapsed per cache key: a call that
\* looked its key up and missed has issued an HTTP request of its own, also
\* while another call for the same key is in flight; and when a call returns
\* a body for a key, the entry of the key holds that body, whatever an
\* earlier call wrote.
C29_NoSingleFlight ==
    /\ [](\A c \in Callers :
            (calls[c].cacheKey # NoKey /\ calls[c].lookups = 1 /\ ~calls[c].hit) =>
                calls[c].sent >= 1)
    /\ [][\A c \in Callers :
            (/\ calls[c].pc = "http"
             /\ calls'[c].pc = "done"
             /\ calls[c].cacheKey # NoKey
             /\ calls'[c].result.kind = "value"
             /\ calls'[c].result.value # "")
            => /\ cache'[calls[c].cacheKey].present
               /\ cache'[calls[c].cacheKey].value = calls'[c].result.value]_vars

\* two calls for one key both missed, each got its own answer from the
\* upstream, and the entry holds the second caller's body
C29_Witness ==
    /\ calls[1].pc = "done" /\ calls[2].pc = "done"
    /\ calls[1].cacheKey = calls[2].cacheKey /\ calls[1].cacheKey # NoKey
    /\ ~calls[1].hit /\ ~calls[2].hit
    /\ calls[1].sent = 1 /\ calls[2].sent = 1
    /\ calls[1].result.kind = "value" /\ calls[2].result.kind = "value"
    /\ calls[1].result.value # calls[2].result.value
    /\ cache[calls[2].cacheKey].value = calls[2].result.value

(***************************************************************************)
(* Properties of the upstream traffic (checked under ApiSpec).             *)
(***************************************************************************)
\* the calls whose HTTP requests were all sent within the window of the live
\* record of their subject key: the caller's calls run one after the other
\* and a denied call sends nothing before its window has ended, so a record
\* that is live while an admitted call is the caller's latest has been live
\* since that call consumed its point; calls that waited out a 429 (up to a
\* whole window) are left aside, backoff delays sum to less than 8 seconds
WithinWindow ==
    {c \in Solo : /\ calls[c].pc \in {"http", "retry_wait", "done"}
                  /\ calls[c].allowed = "true"
                  /\ calls[c].n429 = 0
                  /\ limiter[rateLimitKey("GET", calls[c].url)].consumed > 0}

\* C31: the HTTP requests sent for one subject key within one window of the
\* rate limiter never exceed requestsPerMinute, the retry attempts of a call
\* counted: here, the requests of one call within the window in which it
\* was admitted.
C31_SentWithinQuota ==
    \A c \in WithinWindow : calls[c].sent <= RequestsPerMinute

(***************************************************************************)
(* Properties of the cache writes of the api methods (checked under        *)
(* ToolSpec).                                                              *)
(***************************************************************************)
\* the step is the try body of makeRequest storing a response under key k
StoresResponse(k) ==
    /\ calls[1].pc = "http" /\ calls'[1].pc = "done"
    /\ calls[1].cacheKey = k
    /\ calls'[1].result.kind = "value" /\ calls'[1].result.value # ""
    /\ cache'[k].present /\ cache'[k].value = calls'[1].result.value
    /\ \A other \in CacheKeys \ {k} : cache'[other] = cache[other]

\* the cache key of the request the tool's api method was called for
RequestedKey(name) == firstRequest(name, "valid").input.cacheKey

\* C32: the cache changes only in the step in which makeRequest got a
\* successful response with a non-empty body, and then under the key of the
\* call; a step in which makeRequest raises or returns a cache hit leaves it
\* as it is, and so does the step in which getImageDetails or listTags
\* returns its placeholder after a 401.
C32_WriteOnSuccess ==
    [][/\ cache' # cache => \E k \in CacheKeys : StoresResponse(k)
       /\ (/\ calls'[1].pc = "done" /\ calls[1] # calls'[1]
           /\ (calls'[1].result.kind = "error" \/ calls'[1].hit)) => cache' = cache
       /\ (/\ tool.pc = "run" /\ tool'.pc = "done"
           /\ tool'.result.origin = "placeholder") =>
              /\ cache' = cache
              /\ cacheGet(RequestedKey(tool.name)) = ""]_vars

\* getImageDetails returned the placeholder after a 401 and a search that
\* did not hold the repository: the search response is stored under the
\* search key, nothing under the key of the details
C32_Witness ==
    /\ tool.pc = "done" /\ tool.name = "docker_get_image_details"
    /\ tool.result.origin = "placeholder"
    /\ cache[FallbackSearchInput.cacheKey].present
    /\ ~cache[DetailsInput.cacheKey].present

\* C33: makeRequest sleeps (Retry-After or backoff delay) only when another
\* HTTP attempt follows: no wait begins after the last attempt of the
\* retry loop, whose error is raised without further delay.
C33_WaitsOnlyBetweenAttempts ==
    \A c \in Callers :
        calls[c].pc = "retry_wait" => loopContinues(calls[c].attempt + 1)

\* the step in which the catch block of getImageDetails or listTags runs:
\* the makeRequest of the details (resp. tags) fetch has raised
FetchFailed ==
    /\ tool.pc = "run" /\ tool.step = 1 /\ tool' # tool
    /\ tool.name \in {"docker_get_image_details", "docker_list_tags"}
    /\ calls[1].pc = "done" /\ calls[1].result.kind = "error"

\* C34: when the details (resp. tags) fetch fails with HTTP 401,
\* getImageDetails (resp. listTags) does not raise: listTags returns its
\* placeholder, getImageDetails goes on to the public search and returns
\* its result or the placeholder.  When the fetch fails with any other
\* status or error, the method raises that error.
C34_FallbackOn401Only ==
    /\ [][FetchFailed /\ calls[1].result.error.status = 401 =>
             tool'.result.kind # "throw"
             /\ (tool.name = "docker_list_tags" =>
                    tool'.pc = "done" /\ tool'.result.origin = "placeholder")
             /\ (tool.name = "docker_get_image_details" =>
                    tool'.pc = "run" /\ tool'.step = 2)]_vars
    /\ [][(/\ tool.pc = "run" /\ tool'.pc = "done"
           /\ tool.name = "docker_get_image_details" /\ tool.step = 2) =>
             /\ tool'.result.kind = "return"
             /\ tool'.result.origin \in {"search", "placeholder"}]_vars
    /\ [][FetchFailed /\ calls[1].result.error.status # 401 =>
             /\ tool'.pc = "done" /\ tool'.result.kind = "throw"
             /\ tool'.result.error.status = calls[1].result.error.status
             /\ tool'.result.error.code = calls[1].result.error.code]_vars

\* getImageDetails has returned the result of the public search after a 401
C34_Witness ==
    /\ tool.pc = "done" /\ tool.name = "docker_get_image_details"
    /\ tool.result.kind = "return" /\ tool.result.origin = "search"
    /\ tool.requests = 2

\* the cached requests of the api methods with the operation that sends
\* them: searchImages, getImageDetails (and its search fallback), listTags,
\* getManifest
CachedRequests ==
    {[operation |-> "search", input |-> SearchInput("valid")],
     [operation |-> "search", input |-> FallbackSearchInput],
     [operation |-> "image_details", input |-> DetailsInput],
     [operation |-> "tags", input |-> TagsInput],
     [operation |-> "manifest", input |-> ManifestTagInput]}

\* C35: every upstream response is cached with the TTL documented for the
\* operation that fetched it (search 5 min, image details 10 min, tag lists
\* 15 min, manifests 30 min): the class getOperationType infers from the
\* path is the class of the calling operation.
C35_OperationTTL ==
    \A r \in CachedRequests :
        cache[r.input.cacheKey].present =>
           cache[r.input.cacheKey].ttl = ClaimedTTL(r.operation)

(***************************************************************************)
(* Properties of the session state (checked under Spec).                   *)
(***************************************************************************)
\* the responses to initialize requests and the rejections of the
\* initialization check, as positions of the output
InitializeResponses ==
    {k \in DOMAIN output : output[k].type = "result"
                           /\ reqs[output[k].req].method = "initialize"}
NotInitializedErrors ==
    {k \in DOMAIN output : output[k].type = "error"
                           /\ output[k].body.message = "Server not initialized"}

\* C36: the session state is monotonic: no step returns an initialized
\* session to uninitialized, whatever the message handled (a repeated
\* initialize, a failing handler, a malformed line, a notification), and no
\* 'Server not initialized' error is written after an initialize response.
C36_SessionMonotonic ==
    /\ [][isInitialized => isInitialized']_vars
    /\ [](InitializeResponses # {} => isInitialized)
    /\ [](\A k \in InitializeResponses : \A e \in NotInitializedErrors : e < k)

\* a session that was initialized twice and then answered a failing handler
C36_Witness ==
    /\ isInitialized
    /\ Len(reqs) = 3
    /\ reqs[1].method = "initialize" /\ reqs[2].method = "initialize"
    /\ reqs[3].state = "done" /\ reqs[3].outcome.settled = "rejected"
    /\ Cardinality(InitializeResponses) = 2

(***************************************************************************)
(* Properties of getBackoffDelay (checked under BackoffSpec).              *)
(***************************************************************************)
\* C37: getBackoffDelay(k) is min(2^k * 1000, 30000) plus a jitter j with
\* 0 <= j < 1000, it never exceeds 31000 ms, and it is non-decreasing in k
\* whatever the jitter draws: the delay for k + 1 is at least the delay
\* for k.
C37_BackoffDelay ==
    /\ backoff.last.attempt >= 0 =>
          /\ backoff.last.jitter \in 0..999
          /\ backoff.last.delay =
                Min((2 ^ backoff.last.attempt) * 1000, 30000) + backoff.last.jitter
          /\ backoff.last.delay <= 31000
    /\ (backoff.before.attempt >= 0
        /\ backoff.last.attempt = backoff.before.attempt + 1) =>
          backoff.last.delay >= backoff.before.delay

(***************************************************************************)
(* Properties of generateKey (checked under KeySpec).                      *)
(***************************************************************************)
\* the objects with the properties of params, in every insertion order
Reordered(params) ==
    {q \in [1..Len(params) -> {params[i] : i \in 1..Len(params)}] :
        \A i \in 1..Len(params) : \E j \in 1..Len(q) : q[j] = params[i]}

\* the names of params in ascending order of their code units
Ascending(params) ==
    CHOOSE s \in [1..Len(params) -> ParamNames] :
        /\ \A i \in 1..Len(params) : \E j \in 1..Len(s) : s[j] = params[i].name
        /\ \A i, j \in 1..Len(s) : i < j => codeUnitLess(s[i], s[j])

\* the text 'name:value|name:value|...' of the first n names of s
RECURSIVE PairsText(_, _, _)
PairsText(params, s, n) ==
    IF n = 0 THEN <<>>
    ELSE PairsText(params, s, n - 1) \o (IF n > 1 THEN Bar ELSE <<>>)
         \o s[n] \o Colon \o toString(valueOf(params, s[n]))

\* C39: generateKey returns the same key whatever the insertion order of
\* the parameters, and the key is 'dockerhub:<op>:' followed by the
\* 'name:value' pairs in ascending name order joined by '|'.
C39_KeyDeterminism ==
    keyed # NoKeyCall =>
       /\ \A q \in Reordered(keyed.params) :
             generateKey(keyed.operation, q) = keyed.key
       /\ keyed.key = Dockerhub \o Colon \o keyed.operation \o Colon
                      \o PairsText(keyed.params, Ascending(keyed.params),
                                   Len(keyed.params))

\* generateKey('search', {b: 2, a: 1}) returned 'dockerhub:search:a:1|b:2'
C39_Witness ==
    /\ Len(keyed.params) = 2
    /\ keyed.params[1] = [name |-> <<98>>, value |-> 2]
    /\ keyed.params[2] = [name |-> <<97>>, value |-> 1]
    /\ keyed.key = Dockerhub \o Colon \o keyed.operation
                   \o <<58, 97, 58, 49, 124, 98, 58, 50>>

(***************************************************************************)
(* Properties of the size of the cache (checked under StoreSpec).          *)
(***************************************************************************)
\* the keys the cache holds
Held == {k \in CacheKeys : cache[k].present}

====
